---- MODULE Spec2Model ----
(***************************************************************************)
(* A model of the replicated key-value store: the Store, the textual       *)
(* Operation encoding, the line-protocol dispatcher, and the Replication   *)
(* Manager (role state machine, heartbeat-sender loop, primary-monitor     *)
(* loop, propagation and application of operations).                       *)
(*                                                                         *)
(* A Rust String is a sequence of atoms.  An atom is a run of non-space    *)
(* characters that the program only ever handles as a whole ("PUT", "k"),  *)
(* or the single space SP.  split_whitespace, join, trim and to_uppercase  *)
(* are computed on these sequences as the code computes them on Strings.   *)
(***************************************************************************)
EXTENDS Integers, Sequences, FiniteSets

VARIABLES
    repl,        \* repl[n]: the Server holds a ReplicationManager
    store,       \* store[n]: the node's key -> value map
    role,        \* role[n]: the manager's Role
    backups,     \* backups[n]: the manager's Vec of backup addresses
    stale,       \* stale[n]: last_heartbeat.elapsed() > failover_timeout
    roleLock,    \* roleLock[n]: 0 when free, c when connection c's task holds it
    conn,        \* conn[n][c]: the connection task c of node n and its client
    hb,          \* hb[n]: the heartbeat-sender task of node n
    mon,         \* mon[n]: the primary-monitor task of node n
    wire,        \* the peer-transport exchange of the last step, or NoWire
    out,         \* what the last step did to a client's connection, or NoOut
    issued,      \* number of command lines clients have sent so far
    unit         \* the state of the stand-alone Store and codec specifications

vars == <<repl, store, role, backups, stale, roleLock, conn, hb, mon, wire,
          out, issued, unit>>

sysVars == <<repl, store, role, backups, stale, roleLock, conn, hb, mon, wire,
             out, issued>>

-----------------------------------------------------------------------------
(* Bounds of the model *)

\* Number of command lines the clients send in one behaviour of Spec.
MaxCmds == 2

\* Number of command lines the clients send in one behaviour of SpecRepl.
MaxWrites == 3

\* Client connections a node serves concurrently.
NumConns == 2

\* Length of the put/delete sequences applied to a single Store.
MaxStoreOps == 3

\* Number of tokens of a value in the codec round trip.
MaxValueTokens == 3

-----------------------------------------------------------------------------
(* Strings *)

SP == " "

\* A String made of the given atoms separated by single spaces.
RECURSIVE Words(_)
Words(ws) ==
    IF ws = <<>> THEN <<>>
    ELSE IF Len(ws) = 1 THEN <<ws[1]>>
    ELSE <<ws[1], SP>> \o Words(Tail(ws))

\* str::to_uppercase on one atom: the atoms that hold lower-case letters.
UpperAtom(a) ==
    CASE a = "put" -> "PUT"
      [] a = "Delete" -> "DELETE"
      [] a = "replicate" -> "REPLICATE"
      [] OTHER -> a

ToUpper(s) == [i \in 1..Len(s) |-> UpperAtom(s[i])]

RECURSIVE SplitFrom(_, _, _)
SplitFrom(s, parts, cur) ==
    IF s = <<>>
    THEN IF cur = <<>> THEN parts ELSE Append(parts, cur)
    ELSE IF Head(s) = SP
         THEN SplitFrom(Tail(s), IF cur = <<>> THEN parts ELSE Append(parts, cur), <<>>)
         ELSE SplitFrom(Tail(s), parts, Append(cur, Head(s)))

\* str::split_whitespace().collect(): the non-empty maximal runs of non-space atoms.
SplitWhitespace(s) == SplitFrom(s, <<>>, <<>>)

\* [&str]::join(sep)
RECURSIVE Join(_, _)
Join(parts, sep) ==
    IF parts = <<>> THEN <<>>
    ELSE IF Len(parts) = 1 THEN parts[1]
    ELSE parts[1] \o sep \o Join(Tail(parts), sep)

RECURSIVE TrimStart(_)
TrimStart(s) == IF s # <<>> /\ Head(s) = SP THEN TrimStart(Tail(s)) ELSE s

RECURSIVE TrimEnd(_)
TrimEnd(s) ==
    IF s # <<>> /\ s[Len(s)] = SP THEN TrimEnd(SubSeq(s, 1, Len(s) - 1)) ELSE s

\* str::trim()
Trim(s) == TrimEnd(TrimStart(s))

Rest(parts, i) == SubSeq(parts, i, Len(parts))

-----------------------------------------------------------------------------
(* Operation and its textual encoding *)

Put(k, v) == [type |-> "Put", key |-> k, value |-> v]

Delete(k) == [type |-> "Delete", key |-> k, value |-> <<>>]

\* Option::None of from_string
NoOp == [type |-> "None", key |-> <<>>, value |-> <<>>]

ToString(op) ==
    IF op.type = "Put"
    THEN <<"PUT", SP>> \o op.key \o <<SP>> \o op.value
    ELSE <<"Delete", SP>> \o op.key

\* Mutant of from_string: a DELETE with more than one argument decodes.
FromStringLenient(s) ==
    LET parts == SplitWhitespace(s) IN
    IF parts = <<>> THEN NoOp
    ELSE CASE parts[1] = <<"PUT">> ->
                 IF Len(parts) < 3 THEN NoOp
                 ELSE Put(parts[2], Join(Rest(parts, 3), <<>>))
           [] parts[1] = <<"DELETE">> ->
                 IF Len(parts) < 2 THEN NoOp
                 ELSE Delete(parts[2])
           [] OTHER -> NoOp

FromString(s) ==
    LET parts == SplitWhitespace(s) IN
    IF parts = <<>> THEN NoOp
    ELSE CASE parts[1] = <<"PUT">> ->
                 IF Len(parts) < 3 THEN NoOp
                 ELSE Put(parts[2], Join(Rest(parts, 3), <<>>))
           [] parts[1] = <<"DELETE">> ->
                 IF Len(parts) # 2 THEN NoOp
                 ELSE Delete(parts[2])
           [] OTHER -> NoOp

-----------------------------------------------------------------------------
(* Store *)

EmptyStore == <<>>

StoreGetSome(s, k) == k \in DOMAIN s

\* get: Some(value) is the pair <<TRUE, value>>, None is <<FALSE, <<>> >>
StoreGet(s, k) == IF k \in DOMAIN s THEN <<TRUE, s[k]>> ELSE <<FALSE, <<>> >>

StorePut(s, k, v) == [x \in DOMAIN s \cup {k} |-> IF x = k THEN v ELSE s[x]]

\* Mutant of delete: the key stays in the map.
StoreDeleteKeeps(s, k) == s

\* delete: the map afterwards; its result is StoreGetSome before it
StoreDelete(s, k) == [x \in DOMAIN s \ {k} |-> s[x]]

StoreKeys(s) == DOMAIN s

-----------------------------------------------------------------------------
(* Nodes, addresses, roles *)

Nodes == {"n1", "n2"}

\* The address a node's server listens on.
AddrOf(n) == <<n>>

\* An address on which no server listens: connecting to it fails.
DeadAddr == <<"x">>

\* An address on which a peer accepts connections and never writes a line.
SilentAddr == <<"s">>

Listening(a) == \E n \in Nodes : a = AddrOf(n)

NodeAt(a) == CHOOSE n \in Nodes : a = AddrOf(n)

Conns == 1..NumConns

Primary == [tag |-> "Primary", addr |-> <<>>]

Backup(a) == [tag |-> "Backup", addr |-> a]

Standalone == [tag |-> "Standalone", addr |-> <<>>]

IsBackup(r) == r.tag = "Backup"

-----------------------------------------------------------------------------
(* Response lines *)

OK == <<"OK">>

EmptyCommandError == Words(<<"Error:", "Empty", "command">>)

ReplicationDisabled == Words(<<"ERROR:", "Replication", "not", "enabled">>)

ReplicateUsage == Words(<<"ERROR:", "Usage:", "REPLICATE", "<operation>">>)

AddBackupUsage == Words(<<"ERROR:", "Usage:", "ADD_BACKUP", "<address>">>)

GetUsage == Words(<<"Error:", "GET", "<key>">>)

PutUsage == Words(<<"Error:", "Usage:", "PUT", "<key>", "<value>">>)

DeleteUsage == Words(<<"Error:", "DELETE", "<key>">>)

KeyNotFound == Words(<<"Key", "not", "found">>)

NotDeleted == <<"NULL">>

NoKeysFound == Words(<<"No", "keys", "found">>)

UnknownCommand(verb) ==
    Words(<<"Error:", "Unknown", "command">>) \o <<SP, "'">> \o verb \o <<"'">>

\* What the peer transport returns when the server closed the connection
\* without writing a line: read_line reads nothing and the trimmed line is empty.
NoLine == <<>>

-----------------------------------------------------------------------------
(* Replication Manager: the operations that run under the role lock *)

\* Mutant of add_backup: the role is not checked.
AddBackupAnyRole(n, a) ==
    [ok |-> TRUE,
     bk |-> IF \E i \in 1..Len(backups[n]) : backups[n][i] = a
            THEN backups[n]
            ELSE Append(backups[n], a)]

\* Mutant of add_backup: the address is pushed without the contains test.
AddBackupAgain(n, a) ==
    IF role[n] = Primary
    THEN [ok |-> TRUE, bk |-> Append(backups[n], a)]
    ELSE [ok |-> FALSE, bk |-> backups[n]]

\* Mutant of add_backup: a Primary accepts the address and does not record it.
AddBackupForgets(n, a) ==
    IF role[n] = Primary
    THEN [ok |-> TRUE, bk |-> backups[n]]
    ELSE [ok |-> FALSE, bk |-> backups[n]]

\* add_backup: ok is Ok(()) against Err(ReplicationError), bk the Vec afterwards
AddBackup(n, a) ==
    IF role[n] = Primary
    THEN [ok |-> TRUE,
          bk |-> IF \E i \in 1..Len(backups[n]) : backups[n][i] = a
                 THEN backups[n]
                 ELSE Append(backups[n], a)]
    ELSE [ok |-> FALSE, bk |-> backups[n]]

\* Mutant of apply_operation: a decoded operation is accepted and not applied.
ApplyOperationNoWrite(n, opStr) ==
    IF IsBackup(role[n])
    THEN [ok |-> FromString(opStr).type # "None", st |-> store[n]]
    ELSE [ok |-> FALSE, st |-> store[n]]

\* apply_operation: ok is Ok(()) against Err(ReplicationError), st the map afterwards
ApplyOperation(n, opStr) ==
    IF IsBackup(role[n])
    THEN LET op == FromString(opStr) IN
         CASE op.type = "Put" -> [ok |-> TRUE, st |-> StorePut(store[n], op.key, op.value)]
           [] op.type = "Delete" -> [ok |-> TRUE, st |-> StoreDelete(store[n], op.key)]
           [] OTHER -> [ok |-> FALSE, st |-> store[n]]
    ELSE [ok |-> FALSE, st |-> store[n]]

\* replicate_operation, before its sends: ok is false for Err(ReplicationError),
\* todo the clone of the backup list the operation is sent to
ReplicateTargets(n) ==
    IF role[n] = Primary
    THEN [ok |-> TRUE, todo |-> backups[n]]
    ELSE [ok |-> FALSE, todo |-> <<>>]

-----------------------------------------------------------------------------
(* Protocol server: execute_command *)

\* The outcome of execute_command on node n, up to its first await on the
\* peer transport:
\*   kind  "reply": Ok(resp);  "fail": Err(ReplicationError), by the ? operator;
\*         "keys": Ok of the keys joined in the map's iteration order;
\*         "put", "delete": the local write is done, propagation follows
\*   st, bk the store and the backup set afterwards, beat: last_heartbeat is
\*   set to now, lock: the command awaits the role lock.
Outcome(n, kind, resp) ==
    [kind |-> kind, resp |-> resp, st |-> store[n], bk |-> backups[n],
     beat |-> FALSE, lock |-> FALSE, op |-> NoOp]

Reply(n, resp) == Outcome(n, "reply", resp)

ExecReplicate(n, parts) ==
    IF Len(parts) < 2 THEN Reply(n, ReplicateUsage)
    ELSE IF repl[n]
    THEN LET r == ApplyOperation(n, Join(Rest(parts, 2), <<SP>>)) IN
         [Outcome(n, IF r.ok THEN "reply" ELSE "fail", IF r.ok THEN OK ELSE NoLine)
             EXCEPT !.st = r.st, !.lock = TRUE]
    ELSE Reply(n, ReplicationDisabled)

ExecAddBackup(n, parts) ==
    IF Len(parts) # 2 THEN Reply(n, AddBackupUsage)
    ELSE IF repl[n]
    THEN LET r == AddBackup(n, parts[2]) IN
         [Outcome(n, IF r.ok THEN "reply" ELSE "fail", IF r.ok THEN OK ELSE NoLine)
             EXCEPT !.bk = r.bk, !.lock = TRUE]
    ELSE Reply(n, ReplicationDisabled)

\* Mutant of the HEARTBEAT arm: OK is answered without receive_heartbeat.
ExecHeartbeatNoStamp(n) ==
    IF repl[n]
    THEN Reply(n, OK)
    ELSE Reply(n, ReplicationDisabled)

ExecHeartbeat(n) ==
    IF repl[n]
    THEN [Reply(n, OK) EXCEPT !.beat = TRUE]
    ELSE Reply(n, ReplicationDisabled)

ExecGet(n, parts) ==
    IF Len(parts) # 2 THEN Reply(n, GetUsage)
    ELSE LET g == StoreGet(store[n], parts[2]) IN
         IF g[1] THEN Reply(n, g[2]) ELSE Reply(n, KeyNotFound)

\* Mutant of the PUT arm: a PUT without a value is accepted.
ExecPutWithoutValue(n, parts) ==
    IF Len(parts) < 2 THEN Reply(n, PutUsage)
    ELSE LET key == parts[2]
             value == Join(Rest(parts, 3), <<SP>>)
         IN  [Outcome(n, "put", OK)
                 EXCEPT !.st = StorePut(store[n], key, value), !.op = Put(key, value)]

ExecPut(n, parts) ==
    IF Len(parts) < 3 THEN Reply(n, PutUsage)
    ELSE LET key == parts[2]
             value == Join(Rest(parts, 3), <<SP>>)
         IN  [Outcome(n, "put", OK)
                 EXCEPT !.st = StorePut(store[n], key, value), !.op = Put(key, value)]

\* Mutant of the DELETE arm: the result of the deletion is taken to be true.
ExecDeleteAlwaysDeleted(n, parts) ==
    IF Len(parts) # 2 THEN Reply(n, DeleteUsage)
    ELSE LET key == parts[2] IN
         [Outcome(n, "delete", OK)
             EXCEPT !.st = StoreDelete(store[n], key), !.op = Delete(key)]

ExecDelete(n, parts) ==
    IF Len(parts) # 2 THEN Reply(n, DeleteUsage)
    ELSE LET key == parts[2]
             deleted == StoreGetSome(store[n], key)
         IN  IF deleted
             THEN [Outcome(n, "delete", OK)
                      EXCEPT !.st = StoreDelete(store[n], key), !.op = Delete(key)]
             ELSE Reply(n, NotDeleted)

ExecKeys(n) ==
    IF StoreKeys(store[n]) = {} THEN Reply(n, NoKeysFound) ELSE Outcome(n, "keys", <<>>)

ExecuteCommand(n, command) ==
    LET parts == SplitWhitespace(command) IN
    IF parts = <<>> THEN Reply(n, EmptyCommandError)
    ELSE LET verb == ToUpper(parts[1]) IN
         CASE verb = <<"HEARTBEAT">> -> ExecHeartbeat(n)
           [] verb = <<"REPLICATE">> -> ExecReplicate(n, parts)
           [] verb = <<"ADD_BACKUP">> -> ExecAddBackup(n, parts)
           [] verb = <<"GET">> -> ExecGet(n, parts)
           [] verb = <<"PUT">> -> ExecPut(n, parts)
           [] verb = <<"DELETE">> -> ExecDelete(n, parts)
           [] verb = <<"KEYS">> -> ExecKeys(n)
           [] OTHER -> Reply(n, UnknownCommand(parts[1]))

\* The orders in which a map's keys can be iterated.
KeyOrders(s) ==
    {o \in [1..Cardinality(DOMAIN s) -> DOMAIN s] :
        \A i, j \in DOMAIN o : i # j => o[i] # o[j]}

KeysReplies(s) == {Join(o, <<",", SP>>) : o \in KeyOrders(s)}

-----------------------------------------------------------------------------
(* Client: the convenience method keys *)

EmptyList == <<"(empty", SP, "list)">>

\* Client::keys on the response line that send_command returned
ClientKeys(response) ==
    IF response = EmptyList THEN <<>> ELSE SplitWhitespace(response)

-----------------------------------------------------------------------------
(* Inputs *)

\* The command lines a client sends.
ClientLines ==
    { <<>>,
      Words(<<"FOO", "k">>),
      Words(<<"GET">>),
      Words(<<"GET", "k">>),
      Words(<<"PUT", "k">>),
      Words(<<"PUT", "k", "a">>),
      Words(<<"put", "k", "a", "b">>),
      Words(<<"PUT", "j", "b">>),
      Words(<<"DELETE">>),
      Words(<<"DELETE", "k">>),
      Words(<<"KEYS">>),
      Words(<<"HEARTBEAT">>),
      Words(<<"REPLICATE">>),
      Words(<<"REPLICATE", "PUT", "k", "b">>),
      Words(<<"REPLICATE", "PUT", "k">>),
      Words(<<"REPLICATE", "DELETE", "k">>),
      Words(<<"ADD_BACKUP">>),
      Words(<<"ADD_BACKUP", "n1">>),
      Words(<<"ADD_BACKUP", "n2">>),
      Words(<<"ADD_BACKUP", "x">>) }

\* The command lines of the replication scenarios.
ReplLines ==
    { Words(<<"ADD_BACKUP", "n2">>),
      Words(<<"PUT", "k", "a">>),
      Words(<<"PUT", "k", "a", "b">>),
      Words(<<"DELETE", "k">>),
      Words(<<"GET", "k">>) }

-----------------------------------------------------------------------------
(* Tasks *)

\* A connection task waiting for its client's next line.
IdleConn == [open |-> TRUE, pc |-> "idle", line |-> <<>>, op |-> NoOp, todo |-> <<>>]

NoOut == [node |-> "", conn |-> 0, line |-> <<>>, resp |-> <<>>, err |-> ""]

NoWire == [from |-> "", to |-> <<>>, line |-> <<>>, resp |-> <<>>, connected |-> FALSE]

\* handle_connection wrote the response line to the command of connection c
\* and reads the next command.
Answered(n, c, line, resp) ==
    /\ conn' = [conn EXCEPT ![n][c] = IdleConn]
    /\ out' = [node |-> n, conn |-> c, line |-> line, resp |-> resp, err |-> ""]

\* handle_connection returned the error of execute_command: the connection is
\* dropped and no line is written.
Dropped(n, c, line, e) ==
    /\ conn' = [conn EXCEPT ![n][c] = [IdleConn EXCEPT !.open = FALSE]]
    /\ out' = [node |-> n, conn |-> c, line |-> line, resp |-> NoLine, err |-> e]

\* The command of connection c goes on: nothing is written yet.
Continues(n, c, cn) ==
    /\ conn' = [conn EXCEPT ![n][c] = cn]
    /\ out' = NoOut

\* Client::send_command of one line to address a, with the peer's server running
\* execute_command on it: the store, backup set and heartbeat timestamp of the
\* peer afterwards, and the exchange on the wire.  The call returns when the
\* connection is refused or the response line is read, and has no timeout: it
\* does not return from a peer that accepts and stays silent, nor while the
\* peer's handler waits for a lock.
SendCommand(n, a, line) ==
  /\ a # SilentAddr
  /\
    IF Listening(a)
    THEN LET m == NodeAt(a)
             o == ExecuteCommand(m, line)
         IN  /\ o.lock => roleLock[m] = 0
             /\ store' = [store EXCEPT ![m] = o.st]
             /\ backups' = [backups EXCEPT ![m] = o.bk]
             /\ stale' = [stale EXCEPT ![m] = IF o.beat THEN FALSE ELSE @]
             /\ wire' = [from |-> n, to |-> a, line |-> line, connected |-> TRUE,
                         resp |-> IF o.kind = "reply" THEN o.resp ELSE NoLine]
    ELSE /\ UNCHANGED <<store, backups, stale>>
         /\ wire' = [from |-> n, to |-> a, line |-> line, connected |-> FALSE,
                     resp |-> NoLine]

-----------------------------------------------------------------------------
(* Initial state: every server is constructed and listening, with or without *)
(* a replication manager, on an empty store.                                 *)

\* Every server is constructed and listening on an empty store; rs holds the
\* choices of the nodes built with a replication manager (Server::with_replication
\* against Server::new).
SysInit(rs) ==
    /\ repl \in rs
    /\ store = [n \in Nodes |-> EmptyStore]
    /\ role = [n \in Nodes |-> Standalone]
    /\ backups = [n \in Nodes |-> <<>>]
    /\ stale = [n \in Nodes |-> FALSE]
    /\ roleLock = [n \in Nodes |-> 0]
    /\ conn = [n \in Nodes |-> [c \in Conns |-> IdleConn]]
    /\ hb = [n \in Nodes |-> [pc |-> "none", todo |-> <<>>, spawned |-> 0]]
    /\ mon = [n \in Nodes |-> [pc |-> "none", spawned |-> 0]]
    /\ wire = NoWire
    /\ out = NoOut
    /\ issued = 0

Init ==
    /\ SysInit([Nodes -> BOOLEAN])
    /\ unit = [pc |-> "system"]

-----------------------------------------------------------------------------
(* Clients *)

ClientReconnect(n, c) ==
    /\ ~conn[n][c].open
    /\ conn' = [conn EXCEPT ![n][c] = IdleConn]
    /\ wire' = NoWire
    /\ out' = NoOut
    /\ UNCHANGED <<repl, store, role, backups, stale, roleLock, hb, mon, issued, unit>>

-----------------------------------------------------------------------------
(* Connection tasks *)

\* handle_connection read the line its client sent: execute_command up to its
\* reply, its error or, for PUT and DELETE, the local write.
Serve(n, c, line) ==
    LET cn == conn[n][c]
        o == ExecuteCommand(n, Trim(line))
    IN  /\ cn.open
        /\ cn.pc = "idle"
        /\ o.lock => roleLock[n] = 0
        /\ store' = [store EXCEPT ![n] = o.st]
        /\ backups' = [backups EXCEPT ![n] = o.bk]
        /\ stale' = [stale EXCEPT ![n] = IF o.beat THEN FALSE ELSE @]
        /\ \E r \in (IF o.kind = "keys" THEN KeysReplies(store[n]) ELSE {o.resp}) :
              CASE o.kind \in {"reply", "keys"} -> Answered(n, c, line, r)
                [] o.kind = "fail" -> Dropped(n, c, line, "ReplicationError")
                [] OTHER -> IF repl[n]
                            THEN Continues(n, c, [cn EXCEPT !.pc = "role", !.line = line,
                                                            !.op = o.op])
                            ELSE Answered(n, c, line, r)
        /\ wire' = NoWire
        /\ issued' = issued + 1
        /\ UNCHANGED <<repl, role, roleLock, hb, mon, unit>>

\* Mutant of the role test of PUT and DELETE: replicate_operation is called
\* whatever the role.
GetRoleIgnored(n, c) ==
    LET cn == conn[n][c] IN
    /\ cn.pc = "role"
    /\ roleLock[n] = 0
    /\ Continues(n, c, [cn EXCEPT !.pc = "repl"])
    /\ wire' = NoWire
    /\ UNCHANGED <<repl, store, role, backups, stale, roleLock, hb, mon, issued, unit>>

\* PUT, DELETE: rm.get_role()
GetRole(n, c) ==
    LET cn == conn[n][c] IN
    /\ cn.pc = "role"
    /\ roleLock[n] = 0
    /\ IF role[n] = Primary
       THEN Continues(n, c, [cn EXCEPT !.pc = "repl"])
       ELSE Answered(n, c, cn.line, OK)
    /\ wire' = NoWire
    /\ UNCHANGED <<repl, store, role, backups, stale, roleLock, hb, mon, issued, unit>>

\* Mutant of replicate_operation: Ok(()) is returned once the backup list is
\* cloned, and nothing is sent.
ReplicateOperationDetached(n, c) ==
    LET cn == conn[n][c]
        r == ReplicateTargets(n)
    IN
    /\ cn.pc = "repl"
    /\ roleLock[n] = 0
    /\ IF r.ok
       THEN Answered(n, c, cn.line, OK)
       ELSE Dropped(n, c, cn.line, "ReplicationError")
    /\ wire' = NoWire
    /\ UNCHANGED <<repl, store, role, backups, stale, roleLock, hb, mon, issued, unit>>

\* replicate_operation, to its first send: the role lock is taken and kept, the
\* backup list is cloned.
ReplicateOperation(n, c) ==
    LET cn == conn[n][c]
        r == ReplicateTargets(n)
    IN
    /\ cn.pc = "repl"
    /\ roleLock[n] = 0
    /\ IF r.ok
       THEN IF r.todo = <<>>
            THEN /\ Answered(n, c, cn.line, OK)
                 /\ UNCHANGED roleLock
            ELSE /\ Continues(n, c, [cn EXCEPT !.pc = "send", !.todo = r.todo])
                 /\ roleLock' = [roleLock EXCEPT ![n] = c]
       ELSE /\ Dropped(n, c, cn.line, "ReplicationError")
            /\ UNCHANGED roleLock
    /\ wire' = NoWire
    /\ UNCHANGED <<repl, store, role, backups, stale, hb, mon, issued, unit>>

\* Mutant of the propagation loop: the error of a failed send is returned with
\* the ? operator instead of being logged.
SendOperationOrAbort(n, c) ==
    LET cn == conn[n][c] IN
    /\ cn.pc = "send"
    /\ SendCommand(n, Head(cn.todo), <<"REPLICATE", SP>> \o ToString(cn.op))
    /\ IF ~wire'.connected \/ wire'.resp # OK
       THEN /\ Dropped(n, c, cn.line, "ReplicationError")
            /\ roleLock' = [roleLock EXCEPT ![n] = 0]
       ELSE IF Len(cn.todo) = 1
       THEN /\ Answered(n, c, cn.line, OK)
            /\ roleLock' = [roleLock EXCEPT ![n] = 0]
       ELSE /\ Continues(n, c, [cn EXCEPT !.todo = Tail(cn.todo)])
            /\ UNCHANGED roleLock
    /\ UNCHANGED <<repl, role, hb, mon, issued, unit>>

\* replicate_operation: send_operation_to_backup to the next backup of the
\* clone; after the last one the lock is dropped and the client is answered.
SendOperationToBackup(n, c) ==
    LET cn == conn[n][c] IN
    /\ cn.pc = "send"
    /\ SendCommand(n, Head(cn.todo), <<"REPLICATE", SP>> \o ToString(cn.op))
    /\ IF Len(cn.todo) = 1
       THEN /\ Answered(n, c, cn.line, OK)
            /\ roleLock' = [roleLock EXCEPT ![n] = 0]
       ELSE /\ Continues(n, c, [cn EXCEPT !.todo = Tail(cn.todo)])
            /\ UNCHANGED roleLock
    /\ UNCHANGED <<repl, role, hb, mon, issued, unit>>

-----------------------------------------------------------------------------
(* Replication Manager: start, heartbeat-sender loop, primary-monitor loop *)

StartPrimary(n) ==
    /\ repl[n]
    /\ role[n] = Standalone
    /\ roleLock[n] = 0
    /\ role' = [role EXCEPT ![n] = Primary]
    /\ hb' = [hb EXCEPT ![n] = [pc |-> "sleep", todo |-> <<>>, spawned |-> hb[n].spawned + 1]]
    /\ wire' = NoWire
    /\ out' = NoOut
    /\ UNCHANGED <<repl, store, backups, stale, roleLock, conn, mon, issued, unit>>

StartBackup(n, a) ==
    /\ repl[n]
    /\ role[n] = Standalone
    /\ roleLock[n] = 0
    /\ role' = [role EXCEPT ![n] = Backup(a)]
    /\ mon' = [mon EXCEPT ![n] = [pc |-> "sleep", spawned |-> mon[n].spawned + 1]]
    /\ wire' = NoWire
    /\ out' = NoOut
    /\ UNCHANGED <<repl, store, backups, stale, roleLock, conn, hb, issued, unit>>

\* send_heartbeats: the sleep is over, the role is checked and the backup list cloned.
HeartbeatRound(n) ==
    /\ hb[n].pc = "sleep"
    /\ roleLock[n] = 0
    /\ hb' = [hb EXCEPT ![n] =
                IF role[n] # Primary THEN [hb[n] EXCEPT !.pc = "done"]
                ELSE IF backups[n] = <<>> THEN hb[n]
                ELSE [hb[n] EXCEPT !.pc = "send", !.todo = backups[n]]]
    /\ wire' = NoWire
    /\ out' = NoOut
    /\ UNCHANGED <<repl, store, role, backups, stale, roleLock, conn, mon, issued, unit>>

\* send_heartbeats: send_heartbeat to the next backup of the clone.
SendHeartbeat(n) ==
    /\ hb[n].pc = "send"
    /\ SendCommand(n, Head(hb[n].todo), <<"HEARTBEAT">>)
    /\ hb' = [hb EXCEPT ![n] =
                IF Len(hb[n].todo) = 1
                THEN [hb[n] EXCEPT !.pc = "sleep", !.todo = <<>>]
                ELSE [hb[n] EXCEPT !.todo = Tail(hb[n].todo)]]
    /\ out' = NoOut
    /\ UNCHANGED <<repl, role, roleLock, conn, mon, issued, unit>>

\* Mutant of the monitor's poll: the elapsed time is never found too long.
MonitorPollNeverLate(n) ==
    /\ mon[n].pc = "sleep"
    /\ roleLock[n] = 0
    /\ mon' = [mon EXCEPT ![n] =
                 IF ~IsBackup(role[n]) THEN [mon[n] EXCEPT !.pc = "done"] ELSE mon[n]]
    /\ wire' = NoWire
    /\ out' = NoOut
    /\ UNCHANGED <<repl, store, role, backups, stale, roleLock, conn, hb, issued, unit>>

\* monitor_primary: the sleep is over, the role is checked and the time since
\* the last heartbeat compared with the failover timeout.
MonitorPoll(n) ==
    /\ mon[n].pc = "sleep"
    /\ roleLock[n] = 0
    /\ mon' = [mon EXCEPT ![n] =
                 IF ~IsBackup(role[n]) THEN [mon[n] EXCEPT !.pc = "done"]
                 ELSE IF stale[n] THEN [mon[n] EXCEPT !.pc = "promote"]
                 ELSE mon[n]]
    /\ wire' = NoWire
    /\ out' = NoOut
    /\ UNCHANGED <<repl, store, role, backups, stale, roleLock, conn, hb, issued, unit>>

\* Mutant of the promotion step: the loop does not break after a successful
\* promotion and goes back to sleep.
PromoteWithoutBreak(n) ==
    /\ mon[n].pc = "promote"
    /\ roleLock[n] = 0
    /\ IF IsBackup(role[n])
       THEN /\ role' = [role EXCEPT ![n] = Primary]
            /\ hb' = [hb EXCEPT ![n] =
                        [pc |-> "sleep", todo |-> <<>>, spawned |-> hb[n].spawned + 1]]
       ELSE UNCHANGED <<role, hb>>
    /\ mon' = [mon EXCEPT ![n] = [mon[n] EXCEPT !.pc = "sleep"]]
    /\ wire' = NoWire
    /\ out' = NoOut
    /\ UNCHANGED <<repl, store, backups, stale, roleLock, conn, issued, unit>>

\* Mutant of the promotion: the new Primary takes the address of the old one as
\* its first backup.
PromoteAndRegister(n) ==
    /\ mon[n].pc = "promote"
    /\ roleLock[n] = 0
    /\ IF IsBackup(role[n])
       THEN /\ role' = [role EXCEPT ![n] = Primary]
            /\ backups' = [backups EXCEPT ![n] = <<role[n].addr>>]
            /\ hb' = [hb EXCEPT ![n] =
                        [pc |-> "sleep", todo |-> <<>>, spawned |-> hb[n].spawned + 1]]
            /\ mon' = [mon EXCEPT ![n] = [mon[n] EXCEPT !.pc = "done"]]
       ELSE /\ mon' = [mon EXCEPT ![n] = [mon[n] EXCEPT !.pc = "sleep"]]
            /\ UNCHANGED <<role, hb, backups>>
    /\ wire' = NoWire
    /\ out' = NoOut
    /\ UNCHANGED <<repl, store, stale, roleLock, conn, issued, unit>>

\* monitor_primary: promote_to_primary, and the break when it succeeded.
PromoteToPrimary(n) ==
    /\ mon[n].pc = "promote"
    /\ roleLock[n] = 0
    /\ IF IsBackup(role[n])
       THEN /\ role' = [role EXCEPT ![n] = Primary]
            /\ hb' = [hb EXCEPT ![n] =
                        [pc |-> "sleep", todo |-> <<>>, spawned |-> hb[n].spawned + 1]]
            /\ mon' = [mon EXCEPT ![n] = [mon[n] EXCEPT !.pc = "done"]]
       ELSE /\ mon' = [mon EXCEPT ![n] = [mon[n] EXCEPT !.pc = "sleep"]]
            /\ UNCHANGED <<role, hb>>
    /\ wire' = NoWire
    /\ out' = NoOut
    /\ UNCHANGED <<repl, store, backups, stale, roleLock, conn, issued, unit>>

\* Time passes at node n: more than failover_timeout has now elapsed since the
\* manager's last_heartbeat.  The nodes are separate processes, each with the
\* timestamp of its own construction or of its last HEARTBEAT.
TimePasses(n) ==
    /\ repl[n]
    /\ ~stale[n]
    /\ stale' = [stale EXCEPT ![n] = TRUE]
    /\ wire' = NoWire
    /\ out' = NoOut
    /\ UNCHANGED <<repl, store, role, backups, roleLock, conn, hb, mon, issued, unit>>

-----------------------------------------------------------------------------

\* The steps of the system when its clients send at most max lines, drawn from
\* lines, over the connections cs of each node of ns.
StepOn(ns, lines, max, cs) ==
    \/ \E n \in ns, c \in cs, line \in lines : issued < max /\ Serve(n, c, line)
    \/ \E n \in Nodes, c \in Conns : ClientReconnect(n, c)
    \/ \E n \in Nodes, c \in Conns : GetRole(n, c)
    \/ \E n \in Nodes, c \in Conns : ReplicateOperation(n, c)
    \/ \E n \in Nodes, c \in Conns : SendOperationToBackup(n, c)
    \/ \E n \in Nodes : StartPrimary(n)
    \/ \E n \in Nodes : \E m \in Nodes \ {n} : StartBackup(n, AddrOf(m))
    \/ \E n \in Nodes : HeartbeatRound(n)
    \/ \E n \in Nodes : SendHeartbeat(n)
    \/ \E n \in Nodes : MonitorPoll(n)
    \/ \E n \in Nodes : PromoteToPrimary(n)
    \/ \E n \in Nodes : TimePasses(n)

\* The same with clients connected to every node.
Step(lines, max, cs) == StepOn(Nodes, lines, max, cs)

\* The whole protocol, one connection per node.
Next == Step(ClientLines, MaxCmds, {1})

Spec == Init /\ [][Next]_vars

\* The commands that register backups and write, read and delete keys.
NextRepl == Step(ReplLines, MaxWrites, Conns)

InitRepl ==
    /\ SysInit({[n \in Nodes |-> TRUE]})
    /\ unit = [pc |-> "system"]

SpecRepl == InitRepl /\ [][NextRepl]_vars

\* The steps of the two spawned loops of node n.
MonitorTask(n) == MonitorPoll(n) \/ PromoteToPrimary(n)

HeartbeatTask(n) == HeartbeatRound(n) \/ SendHeartbeat(n)

\* The runtime runs a spawned loop that can take a step.  Clients, connection
\* tasks and the passing of time are under no obligation.
TaskFairness ==
    \A n \in Nodes :
        /\ WF_vars(MonitorTask(n))
        /\ WF_vars(HeartbeatTask(n))

\* The command lines of the failover scenarios.
FailoverLines ==
    { Words(<<"ADD_BACKUP", "n1">>),
      Words(<<"ADD_BACKUP", "n2">>),
      Words(<<"PUT", "k", "a">>),
      <<"HEARTBEAT">> }

NextFailover == Step(FailoverLines, MaxCmds, {1})

FairSpec == InitRepl /\ [][NextFailover]_vars /\ TaskFairness

\* The command lines of a write and its deletion on a replicated pair.
DeleteLines ==
    { Words(<<"ADD_BACKUP", "n2">>),
      Words(<<"PUT", "k", "a">>),
      Words(<<"DELETE", "k">>) }

NextDelete == Step(DeleteLines, MaxWrites, {1})

FairSpecDelete == InitRepl /\ [][NextDelete]_vars /\ TaskFairness

\* The command lines that write, delete and list two keys.
KeysLines ==
    { Words(<<"ADD_BACKUP", "n2">>),
      Words(<<"PUT", "k", "a">>),
      Words(<<"PUT", "j", "b">>),
      Words(<<"DELETE", "k">>),
      <<"KEYS">> }

NextKeys == Step(KeysLines, MaxWrites, {1})

SpecKeys == InitRepl /\ [][NextKeys]_vars

\* The command lines that register a dead address and a peer and then write.
FanoutLines ==
    { Words(<<"ADD_BACKUP", "x">>),
      Words(<<"ADD_BACKUP", "n2">>),
      Words(<<"PUT", "k", "a">>),
      Words(<<"DELETE", "k">>) }

NextFanout == Step(FanoutLines, MaxWrites, {1})

SpecFanout == Init /\ [][NextFanout]_vars

\* The command lines of clients that register a backup and write two values
\* under one key.
ConcurrentLines ==
    { Words(<<"ADD_BACKUP", "n2">>),
      Words(<<"PUT", "k", "a">>),
      Words(<<"PUT", "k", "b">>) }

\* Clients connect to node n1 only, over every connection.
NextConcurrent == StepOn({"n1"}, ConcurrentLines, MaxWrites, Conns)

FairSpecConcurrent == InitRepl /\ [][NextConcurrent]_vars /\ TaskFairness

\* The command lines that hand operation texts to a node, with the commands
\* that make a Primary propagate.
DecodeLines ==
    { Words(<<"ADD_BACKUP", "n2">>),
      Words(<<"PUT", "k", "a">>),
      Words(<<"DELETE", "k">>),
      Words(<<"REPLICATE", "PUT", "k", "b">>),
      Words(<<"REPLICATE", "PUT", "k">>),
      Words(<<"REPLICATE", "FOO", "k">>),
      Words(<<"REPLICATE", "put", "k", "b">>),
      Words(<<"REPLICATE", "DELETE">>),
      Words(<<"REPLICATE", "DELETE", "k", "j">>) }

NextDecode == Step(DecodeLines, MaxWrites, {1})

SpecDecode == InitRepl /\ [][NextDecode]_vars

\* The command lines that register a silent address and a peer and then write.
SilentLines ==
    { Words(<<"ADD_BACKUP", "s">>),
      Words(<<"ADD_BACKUP", "n2">>),
      Words(<<"PUT", "k", "a">>) }

NextSilent == Step(SilentLines, MaxWrites, {1})

FairSpecSilent == InitRepl /\ [][NextSilent]_vars /\ TaskFairness

-----------------------------------------------------------------------------
(* A single Store under a sequence of put and delete *)

StoreKeySet == {<<"k">>, <<"j">>}

StoreValueSet == {<<"a">>, <<"a", SP, "b">>}

StoreInit ==
    /\ SysInit({[n \in Nodes |-> FALSE]})
    /\ unit = [pc |-> "store", s |-> EmptyStore, hist |-> <<>>]

StorePutStep(k, v) ==
    /\ Len(unit.hist) < MaxStoreOps
    /\ unit' = [unit EXCEPT !.s = StorePut(unit.s, k, v),
                            !.hist = Append(unit.hist, Put(k, v))]
    /\ UNCHANGED sysVars

StoreDeleteStep(k) ==
    /\ Len(unit.hist) < MaxStoreOps
    /\ unit' = [unit EXCEPT !.s = StoreDelete(unit.s, k),
                            !.hist = Append(unit.hist, Delete(k))]
    /\ UNCHANGED sysVars

StoreNext ==
    \/ \E k \in StoreKeySet, v \in StoreValueSet : StorePutStep(k, v)
    \/ \E k \in StoreKeySet : StoreDeleteStep(k)

SpecStore == StoreInit /\ [][StoreNext]_vars

-----------------------------------------------------------------------------
(* The Operation encoding applied to one operation *)

CodecTokens == {"a", "b", "c"}

\* Writer and reader threads of the concurrent use of one Store.
NumWriters == 2

NumReaders == 2

\* Calls of the public operations of one manager
MaxCalls == 4

\* The values of one to MaxValueTokens tokens separated by single spaces.
CodecValues ==
    UNION {{Words(w) : w \in [1..len -> CodecTokens]} : len \in 1..MaxValueTokens}

CodecOps ==
    {Put(k, v) : k \in StoreKeySet, v \in CodecValues} \cup {Delete(k) : k \in StoreKeySet}

CodecInit ==
    /\ SysInit({[n \in Nodes |-> FALSE]})
    /\ \E o \in CodecOps : unit = [pc |-> "op", op |-> o, text |-> <<>>, back |-> NoOp]

Encode ==
    /\ unit.pc = "op"
    /\ unit' = [unit EXCEPT !.pc = "text", !.text = ToString(unit.op)]
    /\ UNCHANGED sysVars

Decode ==
    /\ unit.pc = "text"
    /\ unit' = [unit EXCEPT !.pc = "back", !.back = FromString(unit.text)]
    /\ UNCHANGED sysVars

CodecNext == Encode \/ Decode

SpecCodec == CodecInit /\ [][CodecNext]_vars

-----------------------------------------------------------------------------
(* A Store saved to a path and loaded from it *)

\* No file at the path: File::open fails with NotFound.
NoFile == [exists |-> FALSE, data_lock |-> <<>>, data |-> <<FALSE, <<>> >>]

\* A map as serde_json writes it: its entries in the order of the iteration o.
Entries(s, o) == [i \in 1..Len(o) |-> <<o[i], s[o[i]]>>]

\* A JSON object read back into a map, entry by entry.
RECURSIVE FromEntries(_)
FromEntries(e) ==
    IF e = <<>> THEN EmptyStore
    ELSE StorePut(FromEntries(SubSeq(e, 1, Len(e) - 1)), e[Len(e)][1], e[Len(e)][2])

\* save: the documents written for the map s.  The temporary structure has
\* an empty data_lock and the clone of the map in the field named data.
SaveFile(s) ==
    {[exists |-> TRUE, data_lock |-> Entries(EmptyStore, <<>>),
      data |-> <<TRUE, Entries(s, o)>>] : o \in KeyOrders(s)}

\* Mutant of load: the deserialized data field is not moved into data_lock.
LoadFileWithoutTransfer(f) ==
    IF ~f.exists THEN [ok |-> TRUE, st |-> EmptyStore]
    ELSE [ok |-> TRUE, st |-> FromEntries(f.data_lock)]

\* load: ok is Ok(store), st the map of the store returned
LoadFile(f) ==
    IF ~f.exists THEN [ok |-> TRUE, st |-> EmptyStore]
    ELSE [ok |-> TRUE,
          st |-> IF f.data[1] THEN FromEntries(f.data[2]) ELSE FromEntries(f.data_lock)]

\* s is the store in memory, file the content of the path, snap the map of s
\* when the file was written, loaded the result of the last load.
PersistInit ==
    /\ SysInit({[n \in Nodes |-> FALSE]})
    /\ unit = [pc |-> "persist", s |-> EmptyStore, file |-> NoFile, snap |-> EmptyStore,
               loaded |-> [ok |-> FALSE, st |-> EmptyStore], ops |-> 0]

PersistPut(k, v) ==
    /\ unit.ops < MaxStoreOps
    /\ unit' = [unit EXCEPT !.s = StorePut(unit.s, k, v), !.ops = @ + 1]
    /\ UNCHANGED sysVars

PersistDelete(k) ==
    /\ unit.ops < MaxStoreOps
    /\ unit' = [unit EXCEPT !.s = StoreDelete(unit.s, k), !.ops = @ + 1]
    /\ UNCHANGED sysVars

PersistSave ==
    /\ \E f \in SaveFile(unit.s) : unit' = [unit EXCEPT !.file = f, !.snap = unit.s]
    /\ UNCHANGED sysVars

PersistLoad ==
    /\ unit' = [unit EXCEPT !.loaded = LoadFile(unit.file)]
    /\ UNCHANGED sysVars

PersistNext ==
    \/ \E k \in StoreKeySet, v \in StoreValueSet : PersistPut(k, v)
    \/ \E k \in StoreKeySet : PersistDelete(k)
    \/ PersistSave
    \/ PersistLoad

SpecPersist == PersistInit /\ [][PersistNext]_vars

-----------------------------------------------------------------------------
(* One Store shared by threads: writers of their own keys, readers of a shared key *)

Writers == 1..NumWriters

Readers == (NumWriters + 1)..(NumWriters + NumReaders)

SharedKey == <<"shared_key">>

InitialValue == <<"initial">>

\* The key of writer w and the value it puts.
ThreadKey(w) == <<"thread_key", w>>

ThreadValue(w) == <<"value", w>>

\* What a lookup finds in a map whose insert is in progress.
Garbage == <<FALSE, <<"torn">> >>

\* The Store holds the shared key; no thread has started.  writer and readers
\* are the holders of data_lock, torn holds while an insert is in progress.
ThreadsInit ==
    /\ SysInit({[n \in Nodes |-> FALSE]})
    /\ unit = [pc |-> "threads",
               map |-> StorePut(EmptyStore, SharedKey, InitialValue),
               torn |-> FALSE, writer |-> 0, readers |-> {},
               th |-> [t \in Writers \cup Readers |-> [pc |-> "start", got |-> <<>>]]]

ThreadAt(t, pc) == unit.th[t].pc = pc

\* put: data_lock.write() returns once no thread holds the lock
PutAcquire(t) ==
    /\ ThreadAt(t, "start")
    /\ unit.writer = 0 /\ unit.readers = {}
    /\ unit' = [unit EXCEPT !.writer = t, !.th[t].pc = "locked"]
    /\ UNCHANGED sysVars

\* put: data.insert(key, value) begins to change the map
PutInsertBegin(t) ==
    /\ ThreadAt(t, "locked") /\ t \in Writers
    /\ unit' = [unit EXCEPT !.torn = TRUE, !.th[t].pc = "inserting"]
    /\ UNCHANGED sysVars

\* put: data.insert(key, value) is complete
PutInsertEnd(t) ==
    /\ ThreadAt(t, "inserting")
    /\ unit' = [unit EXCEPT !.map = StorePut(unit.map, ThreadKey(t), ThreadValue(t)),
                            !.torn = FALSE, !.th[t].pc = "inserted"]
    /\ UNCHANGED sysVars

\* put: the write guard is dropped
PutRelease(t) ==
    /\ ThreadAt(t, "inserted")
    /\ unit' = [unit EXCEPT !.writer = 0, !.th[t].pc = "done"]
    /\ UNCHANGED sysVars

\* Mutant of the read lock: a reader enters while a writer holds the lock.
GetAcquireUnguarded(t) ==
    /\ ThreadAt(t, "start")
    /\ unit' = [unit EXCEPT !.readers = @ \cup {t}, !.th[t].pc = "locked"]
    /\ UNCHANGED sysVars

\* get: data_lock.read() returns once no writer holds the lock
GetAcquire(t) ==
    /\ ThreadAt(t, "start")
    /\ unit.writer = 0
    /\ unit' = [unit EXCEPT !.readers = @ \cup {t}, !.th[t].pc = "locked"]
    /\ UNCHANGED sysVars

\* get: data.get(key).cloned()
GetLookup(t) ==
    /\ ThreadAt(t, "locked") /\ t \in Readers
    /\ unit' = [unit EXCEPT !.th[t].got = IF unit.torn THEN Garbage
                                          ELSE StoreGet(unit.map, SharedKey),
                            !.th[t].pc = "read"]
    /\ UNCHANGED sysVars

\* get: the read guard is dropped
GetRelease(t) ==
    /\ ThreadAt(t, "read")
    /\ unit' = [unit EXCEPT !.readers = @ \ {t}, !.th[t].pc = "done"]
    /\ UNCHANGED sysVars

ThreadsNext ==
    \/ \E t \in Writers : PutAcquire(t)
    \/ \E t \in Writers : PutInsertBegin(t)
    \/ \E t \in Writers : PutInsertEnd(t)
    \/ \E t \in Writers : PutRelease(t)
    \/ \E t \in Readers : GetAcquire(t)
    \/ \E t \in Readers : GetLookup(t)
    \/ \E t \in Readers : GetRelease(t)

SpecThreads == ThreadsInit /\ [][ThreadsNext]_vars

-----------------------------------------------------------------------------
(* One ReplicationManager under any sequence of its public operations, with   *)
(* the loops it has spawned.  Its peers are left out: a send to a peer        *)
(* returns and changes nothing in this manager.                               *)

\* The node whose manager is called.
Managed == "n1"

NewLoop == [pc |-> "sleep", todo |-> <<>>]

\* ReplicationManager::new, no loop spawned yet.
ManagerInit ==
    /\ SysInit({[n \in Nodes |-> TRUE]})
    /\ unit = [pc |-> "manager", hbs |-> <<>>, mons |-> <<>>, calls |-> 0, ret |-> "none"]

\* A public operation returned r.
Returned(u, r) == [u EXCEPT !.calls = @ + 1, !.ret = r]

MgrStartPrimary ==
    /\ unit.calls < MaxCalls
    /\ role' = [role EXCEPT ![Managed] = Primary]
    /\ unit' = Returned([unit EXCEPT !.hbs = Append(@, NewLoop)], "Ok")
    /\ UNCHANGED <<repl, store, backups, stale, roleLock, conn, hb, mon, wire, out, issued>>

MgrStartBackup(a) ==
    /\ unit.calls < MaxCalls
    /\ role' = [role EXCEPT ![Managed] = Backup(a)]
    /\ unit' = Returned([unit EXCEPT !.mons = Append(@, NewLoop)], "Ok")
    /\ UNCHANGED <<repl, store, backups, stale, roleLock, conn, hb, mon, wire, out, issued>>

MgrAddBackup(a) ==
    LET r == AddBackup(Managed, a) IN
    /\ unit.calls < MaxCalls
    /\ backups' = [backups EXCEPT ![Managed] = r.bk]
    /\ unit' = Returned(unit, IF r.ok THEN "Ok" ELSE "Err")
    /\ UNCHANGED <<repl, store, role, stale, roleLock, conn, hb, mon, wire, out, issued>>

MgrReceiveHeartbeat ==
    /\ unit.calls < MaxCalls
    /\ stale' = [stale EXCEPT ![Managed] = FALSE]
    /\ unit' = Returned(unit, "Ok")
    /\ UNCHANGED <<repl, store, role, backups, roleLock, conn, hb, mon, wire, out, issued>>

\* replicate_operation, with its sends to the backups of the clone.
MgrReplicateOperation ==
    LET r == ReplicateTargets(Managed) IN
    /\ unit.calls < MaxCalls
    /\ unit' = Returned(unit, IF r.ok THEN "Ok" ELSE "Err")
    /\ UNCHANGED sysVars

MgrApplyOperation(opStr) ==
    LET r == ApplyOperation(Managed, opStr) IN
    /\ unit.calls < MaxCalls
    /\ store' = [store EXCEPT ![Managed] = r.st]
    /\ unit' = Returned(unit, IF r.ok THEN "Ok" ELSE "Err")
    /\ UNCHANGED <<repl, role, backups, stale, roleLock, conn, hb, mon, wire, out, issued>>

\* send_heartbeats of the i-th spawned heartbeat loop: the sleep is over, the
\* role is checked and the backup list cloned.
MgrHeartbeatRound(i) ==
    LET l == unit.hbs[i] IN
    /\ l.pc = "sleep"
    /\ unit' = [unit EXCEPT !.hbs[i] =
                  IF role[Managed] # Primary THEN [l EXCEPT !.pc = "done"]
                  ELSE IF backups[Managed] = <<>> THEN l
                  ELSE [pc |-> "send", todo |-> backups[Managed]]]
    /\ UNCHANGED sysVars

\* send_heartbeats of the i-th loop: send_heartbeat to the next backup of the
\* clone, whatever its result.
MgrSendHeartbeat(i) ==
    LET l == unit.hbs[i] IN
    /\ l.pc = "send"
    /\ unit' = [unit EXCEPT !.hbs[i] =
                  IF Len(l.todo) = 1 THEN NewLoop ELSE [l EXCEPT !.todo = Tail(@)]]
    /\ UNCHANGED sysVars

\* monitor_primary of the j-th spawned monitor loop: the sleep is over, the role
\* is checked and the time since the last heartbeat compared with the timeout.
MgrMonitorPoll(j) ==
    LET l == unit.mons[j] IN
    /\ l.pc = "sleep"
    /\ unit' = [unit EXCEPT !.mons[j] =
                  IF ~IsBackup(role[Managed]) THEN [l EXCEPT !.pc = "done"]
                  ELSE IF stale[Managed] THEN [l EXCEPT !.pc = "promote"]
                  ELSE l]
    /\ UNCHANGED sysVars

\* monitor_primary of the j-th loop: promote_to_primary, and the break when it
\* succeeded.
MgrPromoteToPrimary(j) ==
    /\ unit.mons[j].pc = "promote"
    /\ IF IsBackup(role[Managed])
       THEN /\ role' = [role EXCEPT ![Managed] = Primary]
            /\ unit' = [unit EXCEPT !.hbs = Append(@, NewLoop), !.mons[j].pc = "done"]
       ELSE /\ unit' = [unit EXCEPT !.mons[j].pc = "sleep"]
            /\ UNCHANGED role
    /\ UNCHANGED <<repl, store, backups, stale, roleLock, conn, hb, mon, wire, out, issued>>

\* The operation texts handed to apply_operation by REPLICATE.
ManagerOpTexts == { ToString(Put(<<"k">>, <<"a">>)), ToString(Delete(<<"k">>)) }

ManagerNext ==
    \/ MgrStartPrimary
    \/ MgrStartBackup(AddrOf("n2"))
    \/ \E a \in {AddrOf("n2"), DeadAddr} : MgrAddBackup(a)
    \/ MgrReceiveHeartbeat
    \/ MgrReplicateOperation
    \/ \E t \in ManagerOpTexts : MgrApplyOperation(t)
    \/ \E i \in 1..Len(unit.hbs) : MgrHeartbeatRound(i)
    \/ \E i \in 1..Len(unit.hbs) : MgrSendHeartbeat(i)
    \/ \E j \in 1..Len(unit.mons) : MgrMonitorPoll(j)
    \/ \E j \in 1..Len(unit.mons) : MgrPromoteToPrimary(j)
    \/ TimePasses(Managed)

SpecManager == ManagerInit /\ [][ManagerNext]_vars

-----------------------------------------------------------------------------
(* Vocabulary of the properties *)

Addrs == {AddrOf(n) : n \in Nodes} \cup {DeadAddr}

\* The tokens of a command line and its verb, as the protocol defines them.
Tokens(line) == SplitWhitespace(line)

VerbOf(line) == IF Tokens(line) = <<>> THEN <<>> ELSE ToUpper(Tokens(line)[1])

\* The last step answered, or dropped, a command of node n.
Served(o, n) == o # NoOut /\ o.node = n

\* The last step wrote a response line and the connection reads on.
AnsweredLine(o) == o # NoOut /\ o.err = "" /\ conn[o.node][o.conn].open

IsErrorLine(resp) == resp # <<>> /\ resp[1] \in {"Error:", "ERROR:"}

InBackups(n, a) == \E i \in 1..Len(backups[n]) : backups[n][i] = a

\* Node n was started as a backup.
StartedAsBackup(n) == mon[n].spawned > 0

-----------------------------------------------------------------------------
(* C1: the role gates of the manager *)

\* Operation texts handed to apply_operation.
OpTexts ==
    { Words(<<"PUT", "k", "b">>), Words(<<"DELETE", "k">>), Words(<<"Delete", "k">>),
      Words(<<"PUT", "k">>) }

\* In the current state, the three operations called under the wrong role fail
\* and compute no change.
RoleGates ==
    \A n \in Nodes :
        /\ role[n] # Primary =>
              /\ \A a \in Addrs : AddBackup(n, a) = [ok |-> FALSE, bk |-> backups[n]]
              /\ ReplicateTargets(n) = [ok |-> FALSE, todo |-> <<>>]
        /\ ~IsBackup(role[n]) =>
              \A t \in OpTexts : ApplyOperation(n, t) = [ok |-> FALSE, st |-> store[n]]

\* A step in which a server runs ADD_BACKUP under a role other than Primary, or
\* REPLICATE under a role other than Backup, ends in the replication error and
\* changes neither backup set nor store, and sends nothing.
RoleGateStep ==
    /\ \A n \in Nodes :
          (Served(out', n) /\ repl[n]) =>
             /\ (VerbOf(out'.line) = <<"ADD_BACKUP">> /\ Len(Tokens(out'.line)) = 2
                    /\ role[n] # Primary)
                  => (out'.err = "ReplicationError" /\ backups' = backups
                        /\ store' = store /\ wire' = NoWire)
             /\ (VerbOf(out'.line) = <<"REPLICATE">> /\ Len(Tokens(out'.line)) >= 2
                    /\ ~IsBackup(role[n]))
                  => (out'.err = "ReplicationError" /\ store' = store
                        /\ backups' = backups /\ wire' = NoWire)
    /\ (wire' # NoWire /\ wire'.connected /\ VerbOf(wire'.line) = <<"REPLICATE">>
          /\ repl[NodeAt(wire'.to)] /\ ~IsBackup(role[NodeAt(wire'.to)]))
         => (wire'.resp = NoLine /\ store' = store /\ backups' = backups)

\* C1: add_backup and replicate_operation called while the role is not Primary
\* return a replication error, leave the backup set unchanged and send nothing;
\* apply_operation called while the role is not Backup returns a replication
\* error and leaves the store unchanged.
C1_RoleInvariant == [](RoleGates) /\ [][RoleGateStep]_vars

\* A server has run ADD_BACKUP on a node that is not Primary and returned the error.
C1_Witness ==
    /\ out # NoOut
    /\ VerbOf(out.line) = <<"ADD_BACKUP">>
    /\ out.err = "ReplicationError"
    /\ role[out.node] # Primary

-----------------------------------------------------------------------------
(* C2: failover by the monitor loop *)

\* A Backup whose timestamp is too old, and stays so, becomes Primary.
FailoverHappens ==
    \A n \in Nodes :
        (IsBackup(role[n]) /\ stale[n]) ~> (role[n] = Primary \/ ~stale[n])

\* One heartbeat-sender loop at most is ever started on a node, and a monitor
\* that made its node Primary has terminated.
FailoverOnce ==
    \A n \in Nodes :
        /\ hb[n].spawned <= 1
        /\ mon[n].spawned <= 1
        /\ (StartedAsBackup(n) /\ role[n] = Primary) =>
              (mon[n].pc = "done" /\ hb[n].spawned = 1)

\* The only Backup-to-Primary transition is the monitor's promotion, which starts
\* one heartbeat sender and ends the monitor; Primary is never left and a
\* terminated monitor never runs again.
FailoverStep ==
    \A n \in Nodes :
        /\ (IsBackup(role[n]) /\ role'[n] # role[n]) =>
              /\ role'[n] = Primary
              /\ mon[n].pc = "promote" /\ mon'[n].pc = "done"
              /\ hb[n].spawned = 0 /\ hb'[n].spawned = 1
        /\ role[n] = Primary => role'[n] = Primary
        /\ mon[n].pc = "done" => mon'[n] = mon[n]
        /\ (mon[n].pc = "done" /\ StartedAsBackup(n)) => hb'[n].spawned = hb[n].spawned

\* C2: for a node in role Backup whose last-heartbeat timestamp stays older than
\* the failover timeout, the monitor loop eventually changes the role to Primary,
\* does so exactly once (one Backup-to-Primary transition, one heartbeat-sender
\* loop started), and then terminates without attempting promotion again.
C2_Failover == FailoverHappens /\ []FailoverOnce /\ [][FailoverStep]_vars

\* A node started as backup has been promoted by its monitor, which has ended.
C2_Witness ==
    \E n \in Nodes :
        /\ StartedAsBackup(n)
        /\ role[n] = Primary
        /\ mon[n].pc = "done"
        /\ hb[n].spawned = 1

-----------------------------------------------------------------------------
(* C3, C5, C6: propagation of a client's write to a registered backup *)

\* The last step answered OK to the given command line on node p, a Primary
\* that lists node b in its backup set.
AnsweredOnPrimary(p, b, line) ==
    /\ Served(out, p) /\ out.err = "" /\ out.resp = OK
    /\ out.line = line
    /\ role[p] = Primary
    /\ InBackups(p, AddrOf(b))

\* What GET of key k is answered on node b.
GetOn(b, k) == ExecuteCommand(b, <<"GET", SP>> \o k).resp

PutKeys == {<<"k">>}

PutTokens == {<<"a">>}

\* The statement without the role of B at delivery: B was started as backup.
C3_AsStated ==
    \A p \in Nodes : \A b \in Nodes \ {p}, k \in PutKeys, v \in PutTokens :
        (AnsweredOnPrimary(p, b, <<"PUT", SP>> \o k \o <<SP>> \o v) /\ StartedAsBackup(b))
           => GetOn(b, k) = v

\* C3: with P started as primary, B started as backup, ADD_BACKUP B accepted by
\* P and a delivering network, once PUT k v (single-token value) against P is
\* answered, GET k against B returns v, provided B is still in role Backup when
\* the REPLICATE reaches it.
C3_PutReachesBackup ==
    \A p \in Nodes : \A b \in Nodes \ {p}, k \in PutKeys, v \in PutTokens :
        (AnsweredOnPrimary(p, b, <<"PUT", SP>> \o k \o <<SP>> \o v) /\ IsBackup(role[b]))
           => GetOn(b, k) = v

\* A PUT of a single-token value was answered by a Primary whose registered
\* backup is in role Backup and holds the value.
C3_Witness ==
    \E p \in Nodes : \E b \in Nodes \ {p} :
        /\ AnsweredOnPrimary(p, b, Words(<<"PUT", "k", "a">>))
        /\ IsBackup(role[b])
        /\ StoreGet(store[b], <<"k">>) = <<TRUE, <<"a">>>>

\* C5: after DELETE k against a Primary P is answered OK, with B registered and
\* in role Backup, B's store eventually no longer contains k.
C5_DeleteReachesBackup ==
    \A p \in Nodes : \A b \in Nodes \ {p} :
        (AnsweredOnPrimary(p, b, Words(<<"DELETE", "k">>)) /\ IsBackup(role[b]))
           ~> ~StoreGetSome(store[b], <<"k">>)

\* C6: after PUT k v1 v2 on a Primary with a registered backup in role Backup,
\* the value under k on the backup is the tokens joined by single spaces.
C6_SpacesSurvive ==
    \A p \in Nodes : \A b \in Nodes \ {p} :
        (AnsweredOnPrimary(p, b, Words(<<"PUT", "k", "a", "b">>)) /\ IsBackup(role[b]))
           => StoreGet(store[b], <<"k">>) = <<TRUE, Words(<<"a", "b">>)>>

-----------------------------------------------------------------------------
(* C4: the round trip of the Operation encoding *)

\* C4: from_string(op.to_string()) is op, for every Put and Delete.
C4_RoundTrip == unit.pc = "back" => unit.back = unit.op

-----------------------------------------------------------------------------
(* C7: ADD_BACKUP against a node started as backup, before and after failover *)

\* The last step executed ADD_BACKUP with one address on node n.
AddBackupServed(o, n) ==
    Served(o, n) /\ VerbOf(o.line) = <<"ADD_BACKUP">> /\ Len(Tokens(o.line)) = 2

\* While Backup: the backup set is empty.
BackupHasNoBackups == \A b \in Nodes : IsBackup(role[b]) => backups[b] = <<>>

\* While Backup an ADD_BACKUP is rejected and registers nothing; on a node
\* started as backup that has become Primary it is answered OK, the address is
\* in the backup set afterwards and the connection reads on.
AddBackupStep ==
    \A b \in Nodes :
        AddBackupServed(out', b) =>
            /\ IsBackup(role[b]) =>
                  (out'.err = "ReplicationError" /\ out'.resp # OK /\ backups' = backups)
            /\ (StartedAsBackup(b) /\ role[b] = Primary) =>
                  /\ out'.err = "" /\ out'.resp = OK
                  /\ \E i \in 1..Len(backups'[b]) : backups'[b][i] = Tokens(out'.line)[2]
                  /\ conn'[b][out'.conn].open

\* Heartbeat silence longer than the failover timeout makes a Backup Primary for good.
SilenceMakesPrimary ==
    \A b \in Nodes :
        (IsBackup(role[b]) /\ stale[b]) ~> ([](role[b] = Primary) \/ ~stale[b])

\* C7: for a node B started as backup: while B's role is Backup every ADD_BACKUP
\* against B is rejected and B's backup set stays empty; once heartbeats to B
\* stop for longer than the failover timeout B's role becomes Primary, and every
\* ADD_BACKUP executed by B afterwards is answered OK and registers the address.
C7_AddBackupAfterFailover ==
    []BackupHasNoBackups /\ [][AddBackupStep]_vars /\ SilenceMakesPrimary

\* A node started as backup was promoted and has just accepted an ADD_BACKUP.
C7_Witness ==
    \E b \in Nodes :
        /\ AddBackupServed(out, b)
        /\ StartedAsBackup(b) /\ role[b] = Primary
        /\ out.resp = OK
        /\ InBackups(b, Tokens(out.line)[2])

-----------------------------------------------------------------------------
(* C8, C9: what a connection makes of a bad command *)

KnownVerbs ==
    {<<"HEARTBEAT">>, <<"REPLICATE">>, <<"ADD_BACKUP">>, <<"GET">>, <<"PUT">>,
     <<"DELETE">>, <<"KEYS">>}

\* A replication-protocol violation received by node n: ADD_BACKUP on a node
\* that is not Primary, REPLICATE on a node that is not Backup, REPLICATE of an
\* operation text that does not decode.
ProtocolViolation(n, line) ==
    /\ repl[n]
    /\ \/ VerbOf(line) = <<"ADD_BACKUP">> /\ Len(Tokens(line)) = 2 /\ role[n] # Primary
       \/ /\ VerbOf(line) = <<"REPLICATE">> /\ Len(Tokens(line)) >= 2
          /\ \/ ~IsBackup(role[n])
             \/ FromString(Join(Rest(Tokens(line), 2), <<SP>>)) = NoOp

\* C8: a replication-protocol violation is answered with a textual error line
\* on the same connection, and the connection stays open.
C8_ViolationAnswered ==
    \A n \in Nodes :
        (Served(out, n) /\ ProtocolViolation(n, out.line)) =>
            (AnsweredLine(out) /\ IsErrorLine(out.resp))

\* An empty line, an unknown verb, or a known verb with the wrong number of arguments.
Malformed(line) ==
    LET t == Tokens(line) v == VerbOf(line) IN
    \/ t = <<>>
    \/ v \notin KnownVerbs
    \/ v \in {<<"GET">>, <<"DELETE">>} /\ Len(t) # 2
    \/ v = <<"PUT">> /\ Len(t) < 3
    \/ v = <<"REPLICATE">> /\ Len(t) < 2
    \/ v = <<"ADD_BACKUP">> /\ Len(t) # 2

\* execute_command on a malformed line writes nothing: no store, no backup
\* set, no timestamp, no pending propagation.
MalformedIsInert ==
    \A n \in Nodes, line \in ClientLines :
        Malformed(line) =>
            LET o == ExecuteCommand(n, Trim(line)) IN
            /\ o.kind = "reply" /\ IsErrorLine(o.resp)
            /\ o.st = store[n] /\ o.bk = backups[n] /\ ~o.beat /\ o.op = NoOp

\* The step that serves a malformed line answers an error line, changes no
\* state of any node, sends nothing, and the connection reads its next line.
MalformedStep ==
    \A n \in Nodes :
        (Served(out', n) /\ Malformed(out'.line)) =>
            /\ out'.err = "" /\ IsErrorLine(out'.resp)
            /\ store' = store /\ role' = role /\ backups' = backups /\ stale' = stale
            /\ wire' = NoWire
            /\ conn'[n][out'.conn] = IdleConn

\* C9: an empty command line, an unknown verb, or a known verb with wrong arity
\* yields an error response line, leaves the store, role, backup set and
\* heartbeat timestamp unchanged, sends nothing to any peer, and the connection
\* goes on to serve the next command.
C9_MalformedRejected == []MalformedIsInert /\ [][MalformedStep]_vars

\* A PUT without a value has just been answered with its usage line.
C9_Witness ==
    /\ out # NoOut
    /\ out.line = Words(<<"PUT", "k">>)
    /\ out.resp = PutUsage
    /\ conn[out.node][out.conn] = IdleConn

-----------------------------------------------------------------------------
(* C10: a Store after a sequence of put and delete *)

\* The last operation on key k in the history h, NoOp if there is none.
RECURSIVE LastWrite(_, _)
LastWrite(h, k) ==
    IF h = <<>> THEN NoOp
    ELSE IF h[Len(h)].key = k THEN h[Len(h)]
    ELSE LastWrite(SubSeq(h, 1, Len(h) - 1), k)

LiveKeys(h) == {k \in StoreKeySet : LastWrite(h, k).type = "Put"}

\* C10: after every sequence of put and delete on one Store, get(k) is the
\* value of the last put of k if no delete of k followed it and None otherwise,
\* and keys() is exactly the set of live keys, so its size is their number.
C10_LastWriteWins ==
    unit.pc = "store" =>
        /\ \A k \in StoreKeySet :
              StoreGet(unit.s, k) =
                 IF k \in LiveKeys(unit.hist)
                 THEN <<TRUE, LastWrite(unit.hist, k).value>>
                 ELSE <<FALSE, <<>> >>
        /\ StoreKeys(unit.s) = LiveKeys(unit.hist)
        /\ Cardinality(StoreKeys(unit.s)) = Cardinality(LiveKeys(unit.hist))

\* A key was put, overwritten and deleted while another key is live.
C10_Witness ==
    /\ unit.pc = "store"
    /\ \E k \in StoreKeySet, j \in StoreKeySet :
          /\ k # j
          /\ Len(unit.hist) = MaxStoreOps
          /\ unit.hist[1] = Put(j, <<"a">>)
          /\ unit.hist[2].type = "Put" /\ unit.hist[2].key = k
          /\ unit.hist[3] = Delete(k)
          /\ StoreKeys(unit.s) = {j}

-----------------------------------------------------------------------------
(* C11: the DELETE command *)

DeleteOf(k) == <<"DELETE", SP>> \o k

\* This step is execute_command reading DELETE k on connection c of node n:
\* the command is answered at once or goes on to its propagation.
DeleteExecuted(n, c, k) ==
    /\ conn[n][c].pc = "idle"
    /\ issued' = issued + 1
    /\ \/ Served(out', n) /\ out'.conn = c /\ out'.line = DeleteOf(k)
       \/ conn'[n][c].pc = "role" /\ conn'[n][c].line = DeleteOf(k)

\* A DELETE of an absent key is answered with the sentinel, changes no store and
\* has no propagation; a DELETE of a present key removes that key only and is
\* answered OK, at once or after its propagation.
DeleteStep ==
    \A n \in Nodes, c \in Conns, k \in StoreKeySet :
        /\ (DeleteExecuted(n, c, k) /\ ~StoreGetSome(store[n], k)) =>
              /\ out'.err = "" /\ out'.resp = NotDeleted
              /\ store' = store
              /\ wire' = NoWire
              /\ conn'[n][c] = IdleConn
        /\ (DeleteExecuted(n, c, k) /\ StoreGetSome(store[n], k)) =>
              /\ out' = NoOut \/ (out'.err = "" /\ out'.resp = OK)
              /\ DOMAIN store'[n] = DOMAIN store[n] \ {k}
              /\ \A x \in DOMAIN store'[n] : store'[n][x] = store[n][x]
              /\ \A m \in Nodes \ {n} : store'[m] = store[m]
        /\ (conn[n][c].pc # "idle" /\ conn[n][c].line = DeleteOf(k)
              /\ Served(out', n) /\ out'.conn = c) =>
              (out'.err = "" /\ out'.resp = OK)

\* C11: DELETE k is answered OK if and only if k was present in the store
\* immediately before the deletion and with the not-found sentinel otherwise; a
\* DELETE that removed nothing leaves the store unchanged and sends no REPLICATE,
\* and a DELETE that removed k leaves every other key's value unchanged.
C11_DeleteAnswer == [][DeleteStep]_vars

\* DELETE k was answered OK on a node that still holds the other key.
C11_Witness ==
    /\ out # NoOut
    /\ out.line = DeleteOf(<<"k">>)
    /\ out.resp = OK
    /\ StoreGet(store[out.node], <<"j">>) = <<TRUE, <<"b">>>>
    /\ ~StoreGetSome(store[out.node], <<"k">>)

-----------------------------------------------------------------------------
(* C12: concurrent writers of disjoint keys and readers of a shared key *)

\* C12: under every interleaving of the writers, which put pairwise disjoint
\* keys, and the readers of the shared key, no read sees a map whose insert is
\* in progress, every read returns the shared key's value, and once all writers
\* have finished the store holds the shared key and one key per writer.
C12_ConcurrentAccess ==
    unit.pc = "threads" =>
        /\ unit.torn => unit.readers = {}
        /\ \A t \in Readers :
              unit.th[t].pc \in {"read", "done"} => unit.th[t].got = <<TRUE, InitialValue>>
        /\ (\A w \in Writers : unit.th[w].pc = "done") =>
              /\ Cardinality(StoreKeys(unit.map)) = NumWriters + 1
              /\ \A w \in Writers : StoreGet(unit.map, ThreadKey(w)) = <<TRUE, ThreadValue(w)>>
        /\ StoreGet(unit.map, SharedKey) = <<TRUE, InitialValue>>

\* All writers and readers have finished.
C12_Witness ==
    /\ unit.pc = "threads"
    /\ \A t \in Writers \cup Readers : unit.th[t].pc = "done"
    /\ Cardinality(StoreKeys(unit.map)) = NumWriters + 1

-----------------------------------------------------------------------------
(* C13: save and load *)

\* A load returns the map the store had when the file was written, and the
\* empty store when there is no file; it never returns an error.
LoadStep ==
    (unit.pc = "persist" /\ unit'.loaded # unit.loaded) =>
        /\ unit'.loaded.ok
        /\ unit'.loaded.st = IF unit.file.exists THEN unit.snap ELSE EmptyStore

\* C13: save followed by load of the same path reproduces exactly the
\* key-to-value mapping the store had when save took its snapshot, for every
\* store content; load of a path that does not exist yields an empty store and
\* not an error.
C13_SaveLoad ==
    /\ [][LoadStep]_vars
    /\ [](unit.pc = "persist" =>
            \A f \in SaveFile(unit.s) : LoadFile(f) = [ok |-> TRUE, st |-> unit.s])
    /\ [](LoadFile(NoFile) = [ok |-> TRUE, st |-> EmptyStore])

\* A store of two keys, one value with a space, was saved, changed and loaded back.
C13_Witness ==
    /\ unit.pc = "persist"
    /\ unit.loaded.ok
    /\ unit.file.exists
    /\ unit.loaded.st = unit.snap
    /\ Cardinality(StoreKeys(unit.snap)) = 2
    /\ \E k \in StoreKeys(unit.snap) : unit.snap[k] = <<"a", SP, "b">>
    /\ unit.s # unit.snap

-----------------------------------------------------------------------------
(* C14: the list of keys as the client returns it *)

\* C14: Client::keys returns exactly the set of keys held by the server's
\* store: every key of the store is an element of the returned list, and the
\* list is empty when the store is empty.
C14_ClientKeys ==
    (out # NoOut /\ out.line = <<"KEYS">> /\ out.err = "") =>
        LET keys == ClientKeys(Trim(out.resp)) IN
        {keys[i] : i \in 1..Len(keys)} = StoreKeys(store[out.node])

-----------------------------------------------------------------------------
(* C15: the role lock during a call on the peer transport *)

\* A step of node n that performs a send_command to a peer.
PeerCall(n) == wire' # NoWire /\ wire'.from = n

\* C15: no task holds a node's role lock while it performs a blocking
\* peer-transport call: the heartbeat-sender loop and replicate_operation both
\* release the lock before the first HEARTBEAT or REPLICATE is sent.
C15_NoLockAcrossSend ==
    [][\A n \in Nodes : PeerCall(n) => roleLock[n] = 0]_vars

-----------------------------------------------------------------------------
(* C16: a PUT on a Primary whose backups all run a server *)

\* A connection task of node n is inside replicate_operation, holding the role
\* lock of n, and its REPLICATE is with the server of node m, whose
\* apply_operation waits for the role lock of m, which a task of m holds.
WaitsOn(n, m) ==
    \E c \in Conns :
        /\ conn[n][c].pc = "send"
        /\ roleLock[n] = c
        /\ Head(conn[n][c].todo) = AddrOf(m)
        /\ roleLock[m] # 0

\* Tasks that wait on each other: the lock a task waits for is held by a task
\* that waits, directly or through the other node, for the first one.
WaitForever ==
    \E n \in Nodes :
        \/ WaitsOn(n, n)
        \/ \E m \in Nodes \ {n} : WaitsOn(n, m) /\ WaitsOn(m, n)

\* C16: a PUT received by a Primary whose backup addresses all run a server is
\* answered, whatever the backup set holds, the node's own address included:
\* no reachable state has tasks waiting on each other forever.
C16_NoWaitForever == ~WaitForever

-----------------------------------------------------------------------------
(* C17: a failed send in the fan-out *)

\* The exchange w failed: the connection was refused, or the line that came
\* back is not OK.
Failed(w) == w # NoWire /\ (~w.connected \/ w.resp # OK)

\* The heartbeat loop of n after a failed HEARTBEAT: the next backup of the
\* round, or the sleep before the next round.
HeartbeatGoesOn(n) ==
    /\ hb'[n].todo = Tail(hb[n].todo)
    /\ hb'[n].pc = IF Len(hb[n].todo) > 1 THEN "send" ELSE "sleep"

\* replicate_operation of n after a failed REPLICATE: the next backup of the
\* round, or Ok(()) and the client's PUT or DELETE answered OK.
ReplicationGoesOn(n) ==
    \E c \in Conns :
        /\ roleLock[n] = c
        /\ IF Len(conn[n][c].todo) > 1
           THEN /\ conn'[n][c] = [conn[n][c] EXCEPT !.todo = Tail(@)]
                /\ out' = NoOut
           ELSE /\ VerbOf(conn[n][c].line) \in {<<"PUT">>, <<"DELETE">>}
                /\ out' = [node |-> n, conn |-> c, line |-> conn[n][c].line,
                           resp |-> OK, err |-> ""]
                /\ conn'[n][c].open

FanoutStep ==
    \A n \in Nodes :
        (PeerCall(n) /\ Failed(wire')) =>
            /\ backups'[n] = backups[n]
            /\ IF wire'.line = <<"HEARTBEAT">>
               THEN HeartbeatGoesOn(n)
               ELSE ReplicationGoesOn(n)

\* C17: fan-out is best-effort: when a HEARTBEAT or a REPLICATE to one backup
\* fails (connection refused, or a response other than OK) the backup set is
\* unchanged, the remaining backups of the round are contacted next, the
\* heartbeat loop goes on to its next round, and replicate_operation succeeds
\* with the client's PUT or DELETE answered OK.
C17_BestEffort == [][FanoutStep]_vars

\* A REPLICATE has just failed and another backup of the same round is still
\* to be contacted.
C17_Witness ==
    /\ Failed(wire)
    /\ wire.line # <<"HEARTBEAT">>
    /\ \E n \in Nodes, c \in Conns :
          /\ wire.from = n
          /\ conn[n][c].pc = "send"
          /\ conn[n][c].todo # <<>>
          /\ Len(backups[n]) = 2

-----------------------------------------------------------------------------
(* C18: heartbeats to a reachable backup *)

\* Node b, started as a backup and running a server, is registered with the
\* live Primary p.
RegisteredBackup(p, b) ==
    role[p] = Primary /\ InBackups(p, AddrOf(b)) /\ IsBackup(role[b])

\* The last step delivered a heartbeat of p to b.
HeartbeatDelivered(p, b) ==
    /\ wire.from = p
    /\ wire.to = AddrOf(b)
    /\ wire.line = <<"HEARTBEAT">>
    /\ wire.connected
    /\ wire.resp = OK

\* No command is in progress on any connection.
ConnsQuiet == \A n \in Nodes, c \in Conns : conn[n][c].pc = "idle"

\* C18: a registered, reachable backup of a live Primary keeps receiving
\* heartbeats, even when another address of the backup set is unreachable or
\* accepts connections without ever answering.  Stated for the behaviours in
\* which every client command comes to its end, so that no propagation in
\* progress stands between the heartbeat loop and the role lock.
C18_HeartbeatsKeepComing ==
    (<>[]ConnsQuiet) =>
        \A p \in Nodes : \A b \in Nodes \ {p} :
            [](RegisteredBackup(p, b) => <>HeartbeatDelivered(p, b))

-----------------------------------------------------------------------------
(* C19: the loops of one manager *)

\* The i-th heartbeat loop is sending, or will send at its next round.
Sending(i) ==
    \/ unit.hbs[i].pc = "send"
    \/ unit.hbs[i].pc = "sleep" /\ role[Managed] = Primary

\* The j-th monitor loop is promoting, or will go on at its next poll.
Monitoring(j) ==
    \/ unit.mons[j].pc = "promote"
    \/ unit.mons[j].pc = "sleep" /\ IsBackup(role[Managed])

\* C19: a node has at most one active replication loop at any time, for every
\* sequence of start-as-primary, start-as-backup and automatic promotion:
\* never two heartbeat-sender loops sending heartbeats, never two monitor loops.
C19_OneLoop ==
    /\ Cardinality({i \in 1..Len(unit.hbs) : Sending(i)}) <= 1
    /\ Cardinality({j \in 1..Len(unit.mons) : Monitoring(j)}) <= 1

-----------------------------------------------------------------------------
(* C20: no way back from Primary *)

\* C20: promotion is irreversible: once the role of a node is Primary it is
\* Primary in every later state, for every sequence of the public operations
\* of the manager.
C20_PrimaryForever ==
    [][role[Managed] = Primary => role'[Managed] = Primary]_vars

-----------------------------------------------------------------------------
(* C21: the heartbeat timestamp at the start as backup *)

\* The step starts node n as a backup.
StartsAsBackup(n) == ~IsBackup(role[n]) /\ IsBackup(role'[n])

\* C21: starting as backup sets the last-heartbeat timestamp to the current
\* time: right after the start, the failover timeout has not elapsed since the
\* timestamp, however much time passed since the manager was constructed.
C21_StartStampsHeartbeat ==
    [][\A n \in Nodes : StartsAsBackup(n) => ~stale'[n]]_vars

-----------------------------------------------------------------------------
(* C22: the backup set *)

NoDuplicates(bk) == \A i, j \in 1..Len(bk) : bk[i] = bk[j] => i = j

\* The step served ADD_BACKUP a on node n, whose role was Primary and whose
\* backup set held a already.
AddsPresent(n, a) ==
    /\ Served(out', n)
    /\ Tokens(out'.line) = <<<<"ADD_BACKUP">>, a>>
    /\ role[n] = Primary
    /\ InBackups(n, a)

BackupSetStep ==
    \A n \in Nodes :
        /\ NoDuplicates(backups'[n])
        /\ \A a \in Addrs \cup {SilentAddr} :
              AddsPresent(n, a) =>
                  /\ out'.resp = OK /\ out'.err = ""
                  /\ backups'[n] = backups[n]
        /\ backups'[n] # backups[n] =>
              /\ role[n] = Primary /\ role'[n] = Primary
              /\ \E a \in Addrs \cup {SilentAddr} :
                    ~InBackups(n, a) /\ backups'[n] = Append(backups[n], a)

\* C22: the backup set never holds an address twice (it starts empty); an
\* add_backup of an address already present on a Primary succeeds and leaves
\* content and order of the set unchanged; the set changes only in a step in
\* which the role is Primary.
C22_BackupSet == [][BackupSetStep]_vars

\* The third command re-added the first of two registered addresses and was
\* answered OK.
C22_Witness ==
    /\ issued = 3
    /\ out # NoOut /\ out.resp = OK
    /\ Len(backups[out.node]) = 2
    /\ Tokens(out.line) = <<<<"ADD_BACKUP">>, backups[out.node][1]>>

-----------------------------------------------------------------------------
(* C23: the HEARTBEAT command *)

\* Role, backup set and store of node n are left as they were.
KeepsReplicaState(n) ==
    role'[n] = role[n] /\ backups'[n] = backups[n] /\ store'[n] = store[n]

\* The step handled a HEARTBEAT line on node n: sent by a client, with the
\* response in out', or by a peer's heartbeat loop, with the response in wire'.
HeartbeatFromClient(n) == Served(out', n) /\ VerbOf(out'.line) = <<"HEARTBEAT">>

HeartbeatFromPeer(n) ==
    wire' # NoWire /\ wire'.connected /\ wire'.to = AddrOf(n) /\ wire'.line = <<"HEARTBEAT">>

HeartbeatStep ==
    \A n \in Nodes :
        /\ HeartbeatFromClient(n) =>
              /\ KeepsReplicaState(n)
              /\ out'.err = "" /\ conn'[n][out'.conn].open
              /\ IF repl[n]
                 THEN out'.resp = OK /\ ~stale'[n]
                 ELSE out'.resp = ReplicationDisabled /\ stale'[n] = stale[n]
        /\ HeartbeatFromPeer(n) =>
              /\ KeepsReplicaState(n)
              /\ IF repl[n]
                 THEN wire'.resp = OK /\ ~stale'[n]
                 ELSE wire'.resp = ReplicationDisabled /\ stale'[n] = stale[n]

\* C23: a HEARTBEAT on a replication-enabled node in any role stamps the
\* last-heartbeat time, is answered OK and leaves role, backup set and store
\* unchanged; on a node without replication it is answered with the
\* replication-disabled sentinel, changes nothing and keeps the connection open.
C23_Heartbeat == [][HeartbeatStep]_vars

\* A backup whose monitor had found the timeout elapsed has just been sent a
\* HEARTBEAT by a client: it was answered OK and the timestamp is fresh.
C23_Witness ==
    /\ out # NoOut /\ out.line = <<"HEARTBEAT">> /\ out.resp = OK
    /\ IsBackup(role[out.node])
    /\ mon[out.node].pc = "promote"
    /\ ~stale[out.node]

-----------------------------------------------------------------------------
(* C24: a client write on a node that is not Primary *)

\* A well-formed PUT or DELETE line.
IsWrite(line) ==
    \/ VerbOf(line) = <<"PUT">> /\ Len(Tokens(line)) >= 3
    \/ VerbOf(line) = <<"DELETE">> /\ Len(Tokens(line)) = 2

\* The map after the write of the line, and the answer to it.
WriteApplied(st, line) ==
    LET t == Tokens(line) IN
    IF VerbOf(line) = <<"PUT">>
    THEN StorePut(st, t[2], Join(Rest(t, 3), <<SP>>))
    ELSE StoreDelete(st, t[2])

WriteAnswer(st, line) ==
    IF VerbOf(line) = <<"DELETE">> /\ ~StoreGetSome(st, Tokens(line)[2])
    THEN NotDeleted
    ELSE OK

\* Nothing is sent and no replication state of any node changes.
NoReplicationEffect ==
    /\ wire' = NoWire
    /\ role' = role /\ backups' = backups /\ stale' = stale
    /\ roleLock' = roleLock /\ hb' = hb /\ mon' = mon

WriteOffPrimaryStep ==
    \A n \in Nodes :
        \* the write is answered at once: no manager, or nothing was deleted
        /\ (Served(out', n) /\ conn[n][out'.conn].pc = "idle" /\ IsWrite(out'.line)) =>
              /\ ~repl[n] \/ WriteAnswer(store[n], out'.line) = NotDeleted
              /\ store'[n] = WriteApplied(store[n], out'.line)
              /\ out'.err = "" /\ out'.resp = WriteAnswer(store[n], out'.line)
              /\ NoReplicationEffect
        /\ \A c \in Conns :
              \* the write is applied and its handler goes on to read the role
              /\ (conn[n][c].pc = "idle" /\ conn'[n][c].pc = "role") =>
                    /\ repl[n] /\ IsWrite(conn'[n][c].line)
                    /\ store'[n] = WriteApplied(store[n], conn'[n][c].line)
                    /\ NoReplicationEffect
              \* the handler reads a role other than Primary
              /\ (conn[n][c].pc = "role" /\ conn'[n][c].pc # "role" /\ role[n] # Primary) =>
                    /\ out' = [node |-> n, conn |-> c, line |-> conn[n][c].line,
                               resp |-> OK, err |-> ""]
                    /\ conn'[n][c] = IdleConn
                    /\ store' = store
                    /\ NoReplicationEffect
        \* a REPLICATE is sent by a Primary only
        /\ (PeerCall(n) /\ wire'.line # <<"HEARTBEAT">>) =>
              /\ Head(wire'.line) = "REPLICATE"
              /\ repl[n] /\ role[n] = Primary

\* C24: a client PUT or DELETE on a node whose role, when its handler reads it,
\* is Backup or Standalone, or on a node without replication, is applied to the
\* local store and answered as on a primary, sends no REPLICATE and changes no
\* replication state.
C24_WriteOffPrimary == [][WriteOffPrimaryStep]_vars

\* A DELETE of a present key has just been answered OK by a backup.
C24_Witness ==
    /\ out # NoOut /\ out.resp = OK /\ VerbOf(out.line) = <<"DELETE">>
    /\ IsBackup(role[out.node])
    /\ wire = NoWire

-----------------------------------------------------------------------------
(* C25: REPLICATE with a text that is no operation *)

\* The operation text of a REPLICATE line.
OpTextOf(line) == Join(Rest(Tokens(line), 2), <<SP>>)

IsReplicate(line) == VerbOf(line) = <<"REPLICATE">> /\ Len(Tokens(line)) >= 2

\* The text names no operation: unknown verb, PUT with fewer than two
\* arguments, DELETE without exactly one argument.
Undecodable(text) ==
    LET t == Tokens(text) IN
    \/ t = <<>>
    \/ t[1] \notin {<<"PUT">>, <<"DELETE">>}
    \/ t[1] = <<"PUT">> /\ Len(t) < 3
    \/ t[1] = <<"DELETE">> /\ Len(t) # 2

KeepsAllState ==
    store' = store /\ role' = role /\ backups' = backups /\ stale' = stale

UndecodableStep ==
    \A n \in Nodes :
        /\ (Served(out', n) /\ IsReplicate(out'.line) /\ IsBackup(role[n])
               /\ Undecodable(OpTextOf(out'.line))) =>
              /\ out'.err = "ReplicationError"
              /\ KeepsAllState
        /\ (wire' # NoWire /\ wire'.connected /\ wire'.to = AddrOf(n)
               /\ IsReplicate(wire'.line) /\ IsBackup(role[n])
               /\ Undecodable(OpTextOf(wire'.line))) =>
              /\ wire'.resp = NoLine
              /\ KeepsAllState

\* C25: REPLICATE on a Backup with an operation text that does not decode
\* fails with a replication error and leaves the store, role, backup set and
\* heartbeat timestamp unchanged.
C25_UndecodableRejected == [][UndecodableStep]_vars

\* A backup that holds a key has just failed a REPLICATE DELETE with two
\* arguments.
C25_Witness ==
    /\ out # NoOut /\ out.err = "ReplicationError"
    /\ out.line = Words(<<"REPLICATE", "DELETE", "k", "j">>)
    /\ IsBackup(role[out.node])
    /\ StoreGetSome(store[out.node], <<"k">>)

-----------------------------------------------------------------------------
(* C26: two Primaries *)

\* Node b is a backup of the live Primary p, which has not registered it.
Unregistered(p, b) ==
    role[p] = Primary /\ role[b] = Backup(AddrOf(p)) /\ ~InBackups(p, AddrOf(b))

SplitBrain(p, b) == role[p] = Primary /\ role[b] = Primary

\* The promotion of a backup reads and writes nothing of another node.
PromotionIsLocal ==
    \A b \in Nodes :
        (IsBackup(role[b]) /\ role'[b] = Primary) =>
            \A p \in Nodes \ {b} : role'[p] = role[p] /\ backups'[p] = backups[p]

\* C26: at most one Primary is not guaranteed: a backup of a live Primary that
\* never registered it hears no heartbeat and, unless some HEARTBEAT line
\* reaches it, promotes itself after the failover timeout while the Primary is
\* still Primary.
C26_SplitBrain ==
    /\ [][PromotionIsLocal]_vars
    /\ \A p \in Nodes : \A b \in Nodes \ {p} :
          (Unregistered(p, b) /\ stale[b]) ~> (SplitBrain(p, b) \/ ~stale[b])

\* Two nodes are Primary: one started as primary and never registered the
\* other, which was started as its backup and promoted itself.
C26_Witness ==
    \E p \in Nodes : \E b \in Nodes \ {p} :
        /\ SplitBrain(p, b)
        /\ hb[p].spawned = 1 /\ mon[p].spawned = 0
        /\ StartedAsBackup(b) /\ mon[b].pc = "done"
        /\ backups[p] = <<>>

-----------------------------------------------------------------------------
(* C27: concurrent writes on a Primary with one backup *)

\* Node b, in role Backup, is registered with the Primary p.
Replicating(p, b) ==
    role[p] = Primary /\ IsBackup(role[b]) /\ InBackups(p, AddrOf(b))

\* The pair is set up and nothing has been written yet.
ReadyToWrite(p, b) ==
    /\ Replicating(p, b) /\ ConnsQuiet
    /\ store[p] = EmptyStore /\ store[b] = EmptyStore

\* Every command has been answered and the two stores agree.
Agree(p, b) == (Replicating(p, b) /\ ConnsQuiet) => store[b] = store[p]

\* C27: with one Primary, one registered backup that stays in role Backup, a
\* delivering network and clients that write to the Primary only, from the
\* moment the pair is set up: whenever all PUT commands issued on the
\* connections of the Primary have been answered, the backup holds the value of
\* the Primary for every key.
C27_Converges ==
    \A p \in Nodes : \A b \in Nodes \ {p} :
        [](ReadyToWrite(p, b) => []Agree(p, b))

-----------------------------------------------------------------------------
(* C28: the answer to a PUT and its propagation *)

\* The REPLICATE line of Put(k, v).
ReplicatePut(k, v) == Words(<<"REPLICATE", "PUT">>) \o <<SP>> \o k \o <<SP>> \o v

PutLine(k, v) == <<"PUT", SP>> \o k \o <<SP>> \o v

\* The statement with role and reachability of the backup taken at the moment
\* of the answer.
C28_AsStated ==
    \A p \in Nodes : \A b \in Nodes \ {p}, k \in PutKeys, v \in PutTokens :
        (/\ Served(out, p) /\ out.resp = OK /\ out.line = PutLine(k, v)
         /\ role[p] = Primary
         /\ InBackups(p, AddrOf(b)) /\ IsBackup(role[b]))
            => StoreGet(store[b], k) = <<TRUE, v>>

\* s is what is left of the list bk after some of its first elements.
IsSuffix(s, bk) == \E i \in 0..Len(bk) : s = SubSeq(bk, i + 1, Len(bk))

PropagationStep ==
    \A p \in Nodes :
        \* a REPLICATE PUT k v that reaches a node in role Backup is applied
        \* before its OK comes back
        /\ \A b \in Nodes, k \in PutKeys, v \in PutTokens :
              (PeerCall(p) /\ wire'.connected /\ wire'.to = AddrOf(b)
                  /\ wire'.line = ReplicatePut(k, v) /\ IsBackup(role[b])) =>
                 (wire'.resp = OK /\ StoreGet(store'[b], k) = <<TRUE, v>>)
        /\ \A c \in Conns :
              \* the addresses still to be sent to are the rest of the backup set
              /\ conn'[p][c].pc = "send" =>
                    /\ IsSuffix(conn'[p][c].todo, backups'[p])
                    /\ conn'[p][c].todo # <<>>
                    /\ conn[p][c].pc = "repl" => conn'[p][c].todo = backups[p]
                    /\ (conn[p][c].pc = "send" /\ conn'[p][c] # conn[p][c]) =>
                          (PeerCall(p) /\ conn'[p][c].todo = Tail(conn[p][c].todo))
              \* the answer of a propagating command comes with its last send
              /\ (conn[p][c].pc = "send" /\ conn'[p][c].pc # "send") =>
                    /\ Len(conn[p][c].todo) = 1 /\ PeerCall(p)
                    /\ wire'.to = Head(conn[p][c].todo)
                    /\ out'.resp = OK /\ out'.conn = c
              \* or at once when the backup set is empty
              /\ (conn[p][c].pc = "repl" /\ conn'[p][c].pc = "idle" /\ out'.resp = OK) =>
                    backups[p] = <<>>

\* C28: propagation completes before the client is answered: when a Primary
\* answers OK to PUT k v (single-token value), a REPLICATE has been sent to
\* every address of its backup set, and every backup that was reachable and in
\* role Backup when its REPLICATE arrived had applied Put(k, v) before it
\* answered the Primary.
C28_PropagatedBeforeAnswer == [][PropagationStep]_vars

\* A Primary with a backup and a dead address has just answered a PUT that its
\* backup holds.
C28_Witness ==
    \E p \in Nodes : \E b \in Nodes \ {p} :
        /\ Served(out, p) /\ out.resp = OK /\ out.line = PutLine(<<"k">>, <<"a">>)
        /\ role[p] = Primary /\ IsBackup(role[b])
        /\ backups[p] = <<AddrOf(b), DeadAddr>>
        /\ wire.to = DeadAddr
        /\ StoreGet(store[b], <<"k">>) = <<TRUE, <<"a">> >>

-----------------------------------------------------------------------------
(* C29: the timestamp at the moment of the promotion *)

\* The step changes the role of node n from Backup to Primary.
Promoted(n) == IsBackup(role[n]) /\ role'[n] = Primary

\* C29: whenever the monitor loop changes the role of a node from Backup to
\* Primary, more than the failover timeout has elapsed since the most recently
\* recorded heartbeat at that moment, also when a HEARTBEAT was handled between
\* the monitor's read of the timestamp and the role change.
C29_PromotedOnlyWhenLate ==
    [][\A n \in Nodes : Promoted(n) => stale[n]]_vars

-----------------------------------------------------------------------------
(* C30: the backup set of a node that has not been Primary *)

\* A node that is not Primary has no backup.
NoBackupsOffPrimary == \A n \in Nodes : role[n] # Primary => backups[n] = <<>>

BackupsFromAddBackupStep ==
    \A n \in Nodes :
        \* under the starts of a deployment Primary is never left, so a node that
        \* is not Primary has never been
        /\ role[n] = Primary => role'[n] = Primary
        \* a promotion leaves the backup set empty
        /\ Promoted(n) => backups'[n] = <<>>
        \* the set changes only with an accepted ADD_BACKUP
        /\ backups'[n] # backups[n] =>
              /\ Served(out', n) /\ out'.resp = OK
              /\ VerbOf(out'.line) = <<"ADD_BACKUP">>
        \* heartbeats and propagated writes go to registered addresses only
        /\ PeerCall(n) => InBackups(n, wire'.to)

\* C30: the backup set of a node is empty in every state in which the node has
\* never been Primary; a backup that has just promoted itself has an empty
\* backup set, and its heartbeats and propagated writes reach no peer until it
\* has accepted an ADD_BACKUP.
C30_NoBackupsBeforePrimary == []NoBackupsOffPrimary /\ [][BackupsFromAddBackupStep]_vars

\* A promoted backup without a registered address has just answered a PUT, and
\* nothing was sent.
C30_Witness ==
    /\ out # NoOut /\ out.resp = OK /\ VerbOf(out.line) = <<"PUT">>
    /\ StartedAsBackup(out.node) /\ role[out.node] = Primary
    /\ backups[out.node] = <<>>
    /\ wire = NoWire

====
